---- MODULE Spec2Model ----
(***************************************************************************)
(* Model of the this-or-that game server (app.py).                         *)
(*                                                                         *)
(* Python strings are modelled as sequences of one-character strings, so   *)
(* that split, strip, the channel-name filter and the suffix test are      *)
(* computed character by character as the code computes them.  A path is a *)
(* sequence of segments (each a string) below the file-system root.        *)
(* None is the empty sequence <<>> wherever the code tests truthiness.     *)
(***************************************************************************)
EXTENDS Integers, Sequences, FiniteSets, TLC

VARIABLES
    game,      \* GAMES[gid]: the game record the session cookie points to
    fs,        \* the file system: [dirs, files], sets of absolute paths
    last,      \* the request handled last and its response
    nchoose,   \* number of recorded choices since the last (re)start of the game
    picks,     \* images returned by the pick_unserved_image calls of SpecPick
    pc,        \* per request thread: the statement it is about to execute
    loc,       \* per request thread: the handler's local variables
    start      \* the game record when the concurrent requests of SpecConc arrived

vars == <<game, fs, last, nchoose, picks, pc, loc, start>>

----------------------------------------------------------------------------
(* Bounds of the model                                                     *)

\* largest number typed into the rounds field of a setup request
MaxRoundsInput == 6
\* most images in the channel that SpecPick samples
MaxImages == 4

----------------------------------------------------------------------------
(* Characters and strings                                                  *)

Upper == {"A", "B", "C", "G", "N", "P"}
Lower == {"a", "b", "c", "d", "e", "f", "g", "h", "i", "j", "l", "m", "n", "o", "p", "s",
          "t", "u", "w", "x"}
Digit == {"0", "1", "2", "3", "4", "5", "6", "7", "8", "9"}

\* code points, for the order of sorted()
Ord(ch) ==
    CASE ch = " " -> 32 [] ch = "!" -> 33 [] ch = "-" -> 45 [] ch = "." -> 46
      [] ch = "/" -> 47
      [] ch = "0" -> 48 [] ch = "1" -> 49 [] ch = "2" -> 50 [] ch = "3" -> 51
      [] ch = "4" -> 52 [] ch = "5" -> 53 [] ch = "6" -> 54 [] ch = "7" -> 55
      [] ch = "8" -> 56 [] ch = "9" -> 57
      [] ch = "A" -> 65 [] ch = "B" -> 66 [] ch = "C" -> 67 [] ch = "G" -> 71
      [] ch = "N" -> 78 [] ch = "P" -> 80
      [] ch = "\\" -> 92 [] ch = "_" -> 95
      [] ch = "a" -> 97 [] ch = "b" -> 98 [] ch = "c" -> 99 [] ch = "d" -> 100
      [] ch = "e" -> 101 [] ch = "f" -> 102 [] ch = "g" -> 103 [] ch = "h" -> 104
      [] ch = "i" -> 105 [] ch = "j" -> 106 [] ch = "l" -> 108 [] ch = "m" -> 109
      [] ch = "n" -> 110 [] ch = "o" -> 111 [] ch = "p" -> 112 [] ch = "s" -> 115
      [] ch = "t" -> 116 [] ch = "u" -> 117 [] ch = "w" -> 119 [] ch = "x" -> 120

\* str.isalnum() on one character
IsAlnum(ch) == ch \in Upper \cup Lower \cup Digit

\* str.lower() on one character
LowerCh(ch) ==
    CASE ch = "A" -> "a" [] ch = "B" -> "b" [] ch = "C" -> "c" [] ch = "G" -> "g"
      [] ch = "N" -> "n" [] ch = "P" -> "p" [] OTHER -> ch

\* str.lower()
StrLower(s) == [i \in 1..Len(s) |-> LowerCh(s[i])]

\* a < b for strings, as sorted() compares them
StrLess(a, b) ==
    \E i \in 1..(Len(a) + 1) :
        /\ i <= Len(b)
        /\ \A j \in 1..(i - 1) : a[j] = b[j]
        /\ (i = Len(a) + 1 \/ Ord(a[i]) < Ord(b[i]))

\* sep in s
Contains(s, sep) == \E i \in 1..Len(s) : s[i] = sep

\* str.split(sep) for a one-character separator
RECURSIVE Split(_, _)
Split(s, sep) ==
    IF Contains(s, sep)
    THEN LET i == CHOOSE k \in 1..Len(s) :
                     s[k] = sep /\ \A j \in 1..(k - 1) : s[j] # sep
         IN  <<SubSeq(s, 1, i - 1)>> \o Split(SubSeq(s, i + 1, Len(s)), sep)
    ELSE <<s>>

\* sep.join(parts)
RECURSIVE Join(_, _)
Join(parts, sep) ==
    IF parts = <<>> THEN <<>>
    ELSE IF Len(parts) = 1 THEN parts[1]
    ELSE parts[1] \o <<sep>> \o Join(Tail(parts), sep)

\* str.strip()
RECURSIVE Strip(_)
Strip(s) ==
    IF s = <<>> THEN s
    ELSE IF s[1] = " " THEN Strip(Tail(s))
    ELSE IF s[Len(s)] = " " THEN Strip(SubSeq(s, 1, Len(s) - 1))
    ELSE s

\* str.rfind("."), 1-based; 0 when there is none
RFindDot(s) ==
    IF Contains(s, ".")
    THEN CHOOSE i \in 1..Len(s) : s[i] = "." /\ \A j \in (i + 1)..Len(s) : s[j] # "."
    ELSE 0

\* the sequence of the elements of a finite set of strings, sorted
RECURSIVE SortedStrs(_)
SortedStrs(S) ==
    IF S = {} THEN <<>>
    ELSE LET m == CHOOSE x \in S : \A y \in S \ {x} : StrLess(x, y)
         IN  <<m>> \o SortedStrs(S \ {m})

Range(s) == {s[i] : i \in 1..Len(s)}

----------------------------------------------------------------------------
(* pathlib                                                                 *)

DotDot == <<".", ".">>

\* the parts pathlib keeps of a relative path string: "" and "." are dropped
PathParts(s) == SelectSeq(Split(s, "/"), LAMBDA seg : seg # <<>> /\ seg # <<".">>)

\* Path(s).name
PathName(s) == IF PathParts(s) = <<>> THEN <<>> ELSE PathParts(s)[Len(PathParts(s))]

\* Path(s).suffix
PathSuffix(s) ==
    LET name == PathName(s)
        i == RFindDot(name)
    IN  IF 1 < i /\ i < Len(name) THEN SubSeq(name, i, Len(name)) ELSE <<>>

\* Path(s).stem
PathStem(s) ==
    LET name == PathName(s)
        i == RFindDot(name)
    IN  IF 1 < i /\ i < Len(name) THEN SubSeq(name, 1, i - 1) ELSE name

\* p / Path(*segs): pathlib drops "" and "." segments and keeps ".."
PathJoin(p, segs) == p \o SelectSeq(segs, LAMBDA seg : seg # <<>> /\ seg # <<".">>)

\* Path.resolve() where there are no symbolic links: ".." removes a segment
RECURSIVE Resolve(_)
Resolve(p) ==
    IF p = <<>> THEN <<>>
    ELSE LET front == Resolve(SubSeq(p, 1, Len(p) - 1))
             seg == p[Len(p)]
         IN  IF seg = DotDot
             THEN (IF front = <<>> THEN <<>> ELSE SubSeq(front, 1, Len(front) - 1))
             ELSE Append(front, seg)

\* a in b.parents, both compared part by part as pathlib does
IsProperPrefix(a, b) == Len(a) < Len(b) /\ SubSeq(b, 1, Len(a)) = a

----------------------------------------------------------------------------
(* Program constants and fixed names                                       *)

ALLOWED_EXTENSIONS ==
    { <<".", "p", "n", "g">>, <<".", "j", "p", "g">>, <<".", "j", "p", "e", "g">>,
      <<".", "g", "i", "f">>, <<".", "w", "e", "b", "p">>, <<".", "b", "m", "p">> }

\* rounds_total of a fresh game record, and of an unreadable rounds field
DefaultRounds == 15
\* the range the rounds field is clamped to
MinRounds == 5
MaxRounds == 100

\* the directory that holds app.py, one level below the root
BASE_DIR == << <<"a", "p", "p">> >>
UPLOAD_ROOT == Append(BASE_DIR, <<"u", "p", "l", "o", "a", "d", "s">>)
\* the session's game id (12 hex digits in the code, 2 here)
GID == <<"a", "0">>

ChannelDefault == <<"C", "h", "a", "n", "n", "e", "l">>

allowed_file(filename) == StrLower(PathSuffix(filename)) \in ALLOWED_EXTENSIONS

safe_channel_name(name) ==
    LET clean == SelectSeq(name, LAMBDA ch : IsAlnum(ch) \/ ch \in {" ", "_", "-", "."})
    IN  IF Strip(clean) # <<>> THEN Strip(clean) ELSE ChannelDefault

NewGame ==
    [ channels |-> <<>>, wins |-> <<>>, served |-> <<>>,
      rounds_total |-> DefaultRounds, round_index |-> 0, current_round |-> <<>> ]

----------------------------------------------------------------------------
(* The file system                                                         *)

EmptyFs == [dirs |-> {}, files |-> {}, err |-> FALSE]

Prefixes(p) == {SubSeq(p, 1, n) : n \in 1..Len(p)}

\* Path.mkdir(parents=True, exist_ok=True): every directory on the way is
\* created; it raises when a file is in the way
Mkdir(f, p) ==
    LET made == {Resolve(q) : q \in Prefixes(p)}
    IN  IF made \cap f.files # {} THEN [f EXCEPT !.err = TRUE]
        ELSE [f EXCEPT !.dirs = @ \cup made]

\* rmtree that removes the directories and leaves the files
Rmtree_keepFiles(f, p) ==
    [f EXCEPT !.dirs = {d \in @ : d # p /\ ~IsProperPrefix(p, d)}]

\* shutil.rmtree(p) when p.exists()
Rmtree(f, p) ==
    [f EXCEPT !.dirs = {d \in @ : d # p /\ ~IsProperPrefix(p, d)},
              !.files = {x \in @ : ~IsProperPrefix(p, x)}]

\* FileStorage.save(p): raises when p is a directory
SaveAt(f, p) ==
    IF p \in f.dirs THEN [f EXCEPT !.err = TRUE]
    ELSE [f EXCEPT !.files = @ \cup {p}]

load_images_for_channel(f, channel_dir) ==
    LET d == Resolve(channel_dir)
        under == {x \in f.files : IsProperPrefix(d, x) /\ allowed_file(x[Len(x)])}
    IN  SortedStrs({Join(SubSeq(x, Len(d) + 1, Len(x)), "/") : x \in under})

----------------------------------------------------------------------------
(* POST /setup: building the channels from the uploaded folders            *)

\* int(s): optional blanks around an optional sign and decimal digits
DigitVal(ch) == Ord(ch) - Ord("0")

RECURSIVE DigitsVal(_)
DigitsVal(s) ==
    IF s = <<>> THEN 0 ELSE 10 * DigitsVal(SubSeq(s, 1, Len(s) - 1)) + DigitVal(s[Len(s)])

IsDigitCh(ch) == ch \in Digit

\* digits, with single underscores allowed between them
ParseInt(s) ==
    LET t == Strip(s)
        signed == t # <<>> /\ t[1] \in {"+", "-"}
        body == IF signed THEN Tail(t) ELSE t
        digits == SelectSeq(body, IsDigitCh)
    IN  IF /\ body # <<>>
           /\ \A i \in 1..Len(body) : body[i] \in Digit \cup {"_"}
           /\ body[1] # "_" /\ body[Len(body)] # "_"
           /\ \A i \in 1..(Len(body) - 1) : ~(body[i] = "_" /\ body[i + 1] = "_")
        THEN [ok |-> TRUE, val |-> IF signed /\ t[1] = "-" THEN 0 - DigitsVal(digits)
                                   ELSE DigitsVal(digits)]
        ELSE [ok |-> FALSE, val |-> 0]

Min(a, b) == IF a < b THEN a ELSE b
Max(a, b) == IF a > b THEN a ELSE b

\* the rounds field taken as typed, with no clamp
RoundsTotal_unclamped(form) ==
    LET text == IF form = <<>> THEN <<"1", "5">> ELSE form[1]
    IN  IF ParseInt(text).ok THEN ParseInt(text).val ELSE DefaultRounds

\* lines 112-116; form is <<>> when the rounds field is missing, <<s>> otherwise
RoundsTotal(form) ==
    LET text == IF form = <<>> THEN <<"1", "5">> ELSE form[1]
    IN  IF ParseInt(text).ok THEN Max(MinRounds, Min(MaxRounds, ParseInt(text).val))
        ELSE DefaultRounds

\* line 133: the folder the browser sent with the first file
FolderName(relpath) ==
    IF Contains(relpath, "/") \/ Contains(relpath, "\\")
    THEN Split(Split(relpath, "/")[1], "\\")[1]
    ELSE PathStem(relpath)

\* line 134
ChannelName(relpath, field) ==
    IF safe_channel_name(FolderName(relpath)) # <<>>
    THEN safe_channel_name(FolderName(relpath))
    ELSE safe_channel_name(field)

\* lines 142-159, for one file of a slot; st is [fs, saved_any]
SaveUpload(st, ch_dir, filename) ==
    IF st.fs.err \/ filename = <<>> \/ ~allowed_file(filename) THEN st
    ELSE LET split == Split(filename, "/")
             parts == IF Len(split) > 1 THEN Tail(split) ELSE <<PathName(filename)>>
             dest == IF Len(parts) > 1
                     THEN PathJoin(ch_dir, SubSeq(parts, 1, Len(parts) - 1))
                     ELSE ch_dir
             fs1 == IF Len(parts) > 1 THEN Mkdir(st.fs, dest) ELSE st.fs
             dest_file == Resolve(PathJoin(dest, <<parts[Len(parts)]>>))
         IN  IF fs1.err THEN [st EXCEPT !.fs = fs1]
             ELSE IF ~IsProperPrefix(ch_dir, dest_file) /\ dest_file # ch_dir
             THEN [st EXCEPT !.fs = fs1]
             ELSE [fs |-> SaveAt(fs1, dest_file), saved_any |-> ~SaveAt(fs1, dest_file).err]

RECURSIVE SaveUploads(_, _, _)
SaveUploads(st, ch_dir, files) ==
    IF files = <<>> THEN st
    ELSE SaveUploads(SaveUpload(st, ch_dir, files[1]), ch_dir, Tail(files))

\* lines 124-165, for one slot; acc is [fs, channels]
BuildSlot(acc, field, files) ==
    IF acc.fs.err \/ files = <<>> THEN acc
    ELSE LET channel_name == ChannelName(files[1], field)
             ch_dir == PathJoin(Append(UPLOAD_ROOT, GID), <<channel_name>>)
             st == SaveUploads([fs |-> Mkdir(acc.fs, ch_dir), saved_any |-> FALSE],
                               ch_dir, files)
             images == load_images_for_channel(st.fs, ch_dir)
         IN  IF st.saved_any /\ ~st.fs.err /\ images # <<>>
             THEN [fs |-> st.fs,
                   channels |-> Append(acc.channels,
                       [name |-> channel_name, dir |-> ch_dir, images |-> images])]
             ELSE [acc EXCEPT !.fs = st.fs]

\* the field name of slot i: "channel0", "channel1", ...
FieldName(i) == <<"c", "h", "a", "n", "n", "e", "l">> \o <<CHOOSE d \in Digit : DigitVal(d) = i - 1>>

RECURSIVE BuildSlots(_, _, _)
BuildSlots(acc, slots, i) ==
    IF i > Len(slots) THEN acc
    ELSE BuildSlots(BuildSlot(acc, FieldName(i), slots[i]), slots, i + 1)

\* lines 106-109: the session's upload tree is removed and made again
ClearUploads(f) ==
    LET user_upload_dir == Append(UPLOAD_ROOT, GID)
    IN  Mkdir(IF user_upload_dir \in f.dirs THEN Rmtree(f, user_upload_dir) ELSE f,
              user_upload_dir)

\* lines 123-165: the slots are built in the order of their sorted field names
BuildChannels(cleared, slots) ==
    BuildSlots([fs |-> cleared, channels |-> <<>>], slots, 1)

ZeroWins(channels) == [n \in {channels[i].name : i \in 1..Len(channels)} |-> 0]
NoneServed(channels) == [n \in {channels[i].name : i \in 1..Len(channels)} |-> {}]

\* setup that stores rounds_total before it counts the channels
SetupGame_roundsFirst(g, built, rounds_total) ==
    IF Len(built.channels) < 2 THEN [g EXCEPT !.rounds_total = rounds_total]
    ELSE [ channels |-> built.channels, rounds_total |-> rounds_total,
           wins |-> ZeroWins(built.channels), served |-> NoneServed(built.channels),
           round_index |-> 0, current_round |-> <<>> ]

\* the game record after POST /setup with form and slots; lines 167-177
SetupGame(g, built, rounds_total) ==
    IF Len(built.channels) < 2 THEN g
    ELSE [ channels |-> built.channels, rounds_total |-> rounds_total,
           wins |-> ZeroWins(built.channels), served |-> NoneServed(built.channels),
           round_index |-> 0, current_round |-> <<>> ]

----------------------------------------------------------------------------
(* The round sampler                                                       *)

\* dict.setdefault(name, set()) on the served mapping; lines 58 and 83
SetDefault(served, name) ==
    IF name \in DOMAIN served THEN served ELSE served @@ (name :> {})

\* the served set when the clear of line 87 is left out
ServedBeforePick_noClear(g, channel) ==
    SetDefault(g.served, channel.name)[channel.name]

\* lines 82-89: the served set after the clear, if any
ServedBeforePick(g, channel) ==
    LET available == Range(channel.images)
        served == SetDefault(g.served, channel.name)[channel.name]
    IN  IF Cardinality(available \ served) = 0 THEN {} ELSE served

\* lines 89-90: the images random.choice can return
PickChoices(g, channel) ==
    LET unseen == Range(channel.images) \ ServedBeforePick(g, channel)
    IN  IF unseen # {} THEN unseen ELSE Range(channel.images)

\* pick_unserved_image(game, channel) returning choice: the game it leaves
pick_unserved_image(g, channel, choice) ==
    [g EXCEPT !.served = [SetDefault(g.served, channel.name) EXCEPT
                             ![channel.name] = ServedBeforePick(g, channel) \cup {choice}]]

\* pick_two_distinct_channels: the index pairs random.sample can return
TwoDistinct(channels) ==
    {ab \in (1..Len(channels)) \X (1..Len(channels)) : ab[1] # ab[2]}

\* lines 195-197 for the channels a and b that were drawn
RoundsWith(g, a, b) ==
    UNION { { [pick_unserved_image(pick_unserved_image(g, a, imgA), b, imgB)
                  EXCEPT !.current_round = << <<a.name, imgA>>, <<b.name, imgB>> >>] :
                imgB \in PickChoices(pick_unserved_image(g, a, imgA), b) } :
            imgA \in PickChoices(g, a) }

\* lines 193-197: the games GET /play can leave when it prepares a round
NewRounds(g) ==
    UNION { RoundsWith(g, g.channels[ab[1]], g.channels[ab[2]]) :
            ab \in TwoDistinct(g.channels) }

----------------------------------------------------------------------------
(* Requests of the model                                                   *)

F_Aa == <<"A", "/", "a", ".", "p", "n", "g">>
F_Ab == <<"A", "/", "b", ".", "p", "n", "g">>
F_Ba == <<"B", "/", "a", ".", "P", "N", "G">>
F_Xc == <<"A", "!", "/", "c", ".", "p", "n", "g">>
F_txt == <<"B", "/", "n", ".", "t", "x", "t">>
F_up == <<"B", "/", ".", ".", "/", ".", ".", "/", "x", ".", "p", "n", "g">>
F_c == <<"c", ".", "p", "n", "g">>

\* the file lists of the channel slots of the setup requests
SlotLists ==
    { << <<F_Aa, F_Ab>>, <<F_Ba, F_txt>> >>,
      << <<F_Aa>>, <<F_Ab>> >>,
      << <<F_Aa>>, <<F_Xc>> >>,
      << <<F_Aa>>, <<F_Ba>>, <<F_c>> >>,
      << <<F_Aa, F_Ab>> >>,
      << <<F_Aa>>, <<F_txt>> >>,
      << <<F_Aa>>, <<F_up>> >>,
      << <<F_Aa>>, << <<>> >> >>,
      << >> }

RECURSIVE Decimal(_)
Decimal(n) ==
    IF n < 10 THEN <<CHOOSE d \in Digit : DigitVal(d) = n>>
    ELSE Decimal(n \div 10) \o Decimal(n % 10)

\* the rounds fields of the setup requests
RoundsForms == { <<Decimal(n)>> : n \in (MinRounds - 1)..MaxRoundsInput }

Choices == {"left", "right", "both", "None"}

\* BuildChannels on the tree ClearUploads leaves when nothing lies outside the
\* session's upload tree, computed once for each request of the model
FreshTree == ClearUploads(EmptyFs)
BuiltFresh == [slots \in SlotLists |-> BuildChannels(FreshTree, slots)]

\* lines 123-165 on the cleared file system
Built(cleared, slots) ==
    IF cleared = FreshTree THEN BuiltFresh[slots] ELSE BuildChannels(cleared, slots)

\* round: the round GET /play rendered; reused: it was prepared by an earlier
\* request; usable: the number of channels a setup request built; out: the
\* values handed to the template
NoResponse ==
    [op |-> "", choice |-> "", res |-> "", round |-> <<>>, reused |-> FALSE, usable |-> 0,
     out |-> <<>>]

----------------------------------------------------------------------------
(* The request handlers, each run from start to end                        *)

Init ==
    /\ game = NewGame
    /\ fs = EmptyFs
    /\ last = NoResponse
    /\ nchoose = 0
    /\ picks = <<>>
    /\ pc = <<>>
    /\ loc = <<>>
    /\ start = <<>>

SetupWith(slots, form) ==
    \E cleared \in {ClearUploads(fs)} :
        \E built \in {Built(cleared, slots)} :
            /\ fs' = [built.fs EXCEPT !.err = FALSE]
            /\ game' = IF built.fs.err THEN game
                       ELSE SetupGame(game, built, RoundsTotal(form))
            /\ last' = [NoResponse EXCEPT !.op = "setup",
                           !.usable = Len(built.channels),
                           !.res = IF built.fs.err THEN "error"
                                   ELSE IF Len(built.channels) < 2
                                        THEN "InsufficientChannels" ELSE "play"]
            /\ nchoose' = IF ~built.fs.err /\ Len(built.channels) >= 2 THEN 0 ELSE nchoose
            /\ UNCHANGED <<picks, pc, loc, start>>

Setup == \E slots \in SlotLists, form \in RoundsForms : SetupWith(slots, form)

\* play that prepares a new round on every request
PlayGames_fresh(g) ==
    IF g.channels = <<>> \/ g.round_index >= g.rounds_total THEN {g}
    ELSE IF Len(g.channels) < 2 THEN {g}
    ELSE NewRounds(g)

\* play that goes on preparing rounds when all rounds were played
PlayGames_noEnd(g) ==
    IF g.channels = <<>> THEN {g}
    ELSE IF g.current_round # <<>> THEN {g}
    ELSE IF Len(g.channels) < 2 THEN {g}
    ELSE NewRounds(g)

\* the games GET /play can leave: lines 186-197
PlayGames(g) ==
    IF g.channels = <<>> \/ g.round_index >= g.rounds_total THEN {g}
    ELSE IF g.current_round # <<>> THEN {g}
    ELSE IF Len(g.channels) < 2 THEN {g}
    ELSE NewRounds(g)

\* the percent-encoding url_for applies to a path segment: of the characters
\* a stored name can hold, only the blank is encoded
RECURSIVE UrlQuote(_)
UrlQuote(s) ==
    IF s = <<>> THEN <<>>
    ELSE (IF s[1] = " " THEN <<"%", "2", "0">> ELSE <<s[1]>>) \o UrlQuote(Tail(s))

\* url_for("serve_image", ...): the rule of line 287
url_for_serve_image(game_id, channel, relpath) ==
    <<"/">> \o Join(<< <<"u", "p", "l", "o", "a", "d", "s">>, game_id,
                       UrlQuote(channel), UrlQuote(relpath) >>, "/")

\* lines 199-212: the values handed to play.html
RenderRound(g) ==
    [ round_number |-> g.round_index + 1,
      rounds_total |-> g.rounds_total,
      left_url |-> url_for_serve_image(GID, g.current_round[1][1], g.current_round[1][2]),
      right_url |-> url_for_serve_image(GID, g.current_round[2][1], g.current_round[2][2]) ]

\* the response of GET /play that found g and left h: lines 186-212
PlayResponse(g, h) ==
    IF g.channels = <<>> THEN [NoResponse EXCEPT !.op = "play", !.res = "index"]
    ELSE IF g.round_index >= g.rounds_total
    THEN [NoResponse EXCEPT !.op = "play", !.res = "results"]
    ELSE IF g.current_round = <<>> /\ Len(g.channels) < 2
    THEN [NoResponse EXCEPT !.op = "play", !.res = "error"]
    ELSE [NoResponse EXCEPT !.op = "play", !.res = "play.html",
                            !.round = h.current_round,
                            !.reused = (g.current_round # <<>>),
                            !.out = RenderRound(h)]

Play ==
    /\ game' \in PlayGames(game)
    /\ last' = PlayResponse(game, game')
    /\ UNCHANGED <<fs, nchoose, picks, pc, loc, start>>

\* dict.get(key, 0)
Get0(wins, key) == IF key \in DOMAIN wins THEN wins[key] ELSE 0

\* choose that records the win and forgets to count the round
RecordWin_noIndex(g, picked) ==
    [g EXCEPT !.wins = (picked :> (Get0(g.wins, picked) + 1)) @@ g.wins,
              !.current_round = <<>>]

\* choose that counts the round for every channel
RecordWin_all(g, picked) ==
    [g EXCEPT !.wins = [n \in DOMAIN g.wins \cup {picked} |-> Get0(g.wins, n) + 1],
              !.round_index = @ + 1,
              !.current_round = <<>>]

\* lines 232-236
RecordWin(g, picked) ==
    [g EXCEPT !.wins = (picked :> (Get0(g.wins, picked) + 1)) @@ g.wins,
              !.round_index = @ + 1,
              !.current_round = <<>>]

\* choose that takes every choice but "left" for "right"
Picked_else(round, choice) ==
    IF choice = "left" THEN <<round[1][1]>> ELSE <<round[2][1]>>

\* lines 222-230: the channel the choice names, <<>> for an invalid choice
Picked(round, choice) ==
    IF choice = "left" THEN <<round[1][1]>>
    ELSE IF choice = "right" THEN <<round[2][1]>>
    ELSE <<>>

\* the game POST /choose leaves: lines 219-236
ChooseGame(g, choice) ==
    IF g.current_round = <<>> \/ Picked(g.current_round, choice) = <<>> THEN g
    ELSE RecordWin(g, Picked(g.current_round, choice)[1])

\* the response of POST /choose that found g and left h: lines 219-240
ChooseResponse(g, h, choice) ==
    [NoResponse EXCEPT !.op = "choose", !.choice = choice,
        !.res = IF g.current_round = <<>> \/ Picked(g.current_round, choice) = <<>>
                THEN "play"
                ELSE IF h.round_index >= h.rounds_total THEN "results" ELSE "play"]

ChooseWith(choice) ==
    /\ game' = ChooseGame(game, choice)
    /\ last' = ChooseResponse(game, game', choice)
    /\ nchoose' = IF game.current_round = <<>> \/ Picked(game.current_round, choice) = <<>>
                  THEN nchoose ELSE nchoose + 1
    /\ UNCHANGED <<fs, picks, pc, loc, start>>

Choose == \E choice \in Choices : ChooseWith(choice)

RECURSIVE SetDefaults(_, _)
SetDefaults(served, channels) ==
    IF channels = <<>> THEN served
    ELSE SetDefaults(SetDefault(served, channels[1].name), Tail(channels))

\* reset_game_state that leaves the win counts as they are
reset_game_state_keepWins(g, preserve_cache) ==
    [g EXCEPT !.round_index = 0,
              !.current_round = <<>>,
              !.served = IF ~preserve_cache THEN NoneServed(g.channels)
                         ELSE SetDefaults(g.served, g.channels)]

\* reset_game_state that empties the served cache whatever preserve_cache says
reset_game_state_dropCache(g, preserve_cache) ==
    [g EXCEPT !.wins = ZeroWins(g.channels),
              !.round_index = 0,
              !.current_round = <<>>,
              !.served = NoneServed(g.channels)]

reset_game_state(g, preserve_cache) ==
    [g EXCEPT !.wins = ZeroWins(g.channels),
              !.round_index = 0,
              !.current_round = <<>>,
              !.served = IF ~preserve_cache THEN NoneServed(g.channels)
                         ELSE SetDefaults(g.served, g.channels)]

Replay ==
    /\ game' = reset_game_state(game, TRUE)
    /\ last' = [NoResponse EXCEPT !.op = "replay", !.res = "play"]
    /\ nchoose' = 0
    /\ UNCHANGED <<fs, picks, pc, loc, start>>

Startover ==
    /\ fs' = IF Append(UPLOAD_ROOT, GID) \in fs.dirs
             THEN Rmtree(fs, Append(UPLOAD_ROOT, GID)) ELSE fs
    /\ game' = NewGame
    /\ last' = [NoResponse EXCEPT !.op = "startover", !.res = "index"]
    /\ nchoose' = 0
    /\ UNCHANGED <<picks, pc, loc, start>>

Next == Setup \/ Play \/ Choose \/ Replay \/ Startover

Spec == Init /\ [][Next]_vars

----------------------------------------------------------------------------
(* Session states and derived values                                       *)

RECURSIVE SumOver(_, _)
SumOver(f, keys) ==
    IF keys = {} THEN 0
    ELSE LET k == CHOOSE x \in keys : TRUE IN f[k] + SumOver(f, keys \ {k})

\* sum(wins.values())
SumWins(g) == SumOver(g.wins, DOMAIN g.wins)

\* the channels of g called name
Named(g, name) == {i \in 1..Len(g.channels) : g.channels[i].name = name}

InSetup(g) == g.channels = <<>>
InPlaying(g) == g.channels # <<>> /\ g.round_index < g.rounds_total
InResults(g) == g.channels # <<>> /\ g.round_index >= g.rounds_total

UserFiles(f) == {x \in f.files : IsProperPrefix(Append(UPLOAD_ROOT, GID), x)}

----------------------------------------------------------------------------
(* Properties of the request handlers                                      *)

\* C1: whenever the session holds channels (Playing or Results), the sum of
\* all win counts equals round_index.
SumWinsIsRoundIndex == ~InSetup(game) => SumWins(game) = game.round_index

SumWinsWitness ==
    /\ InPlaying(game)
    /\ game.round_index >= 2
    /\ \E a, b \in DOMAIN game.wins : a # b /\ game.wins[a] > 0 /\ game.wins[b] > 0

\* C2: for every channel of the session, the served set kept under the
\* channel's name holds only images of that channel.
ServedWithinImages ==
    \A i \in 1..Len(game.channels) :
        game.channels[i].name \in DOMAIN game.served =>
            game.served[game.channels[i].name] \subseteq Range(game.channels[i].images)

\* C4: replay from Playing or Results zeroes every win count, round_index and
\* current_round, leaves served, channels and rounds_total as they were, and
\* leaves the session in Playing.
ReplayKeepsServed ==
    [][ last'.op = "replay" /\ ~InSetup(game) =>
          /\ DOMAIN game'.wins = {game.channels[i].name : i \in 1..Len(game.channels)}
          /\ \A n \in DOMAIN game'.wins : game'.wins[n] = 0
          /\ game'.round_index = 0
          /\ game'.current_round = <<>>
          /\ game'.served = game.served
          /\ game'.channels = game.channels
          /\ game'.rounds_total = game.rounds_total
          /\ InPlaying(game') ]_vars

ReplayWitness ==
    /\ last.op = "replay"
    /\ InPlaying(game)
    /\ \A n \in DOMAIN game.served : game.served[n] # {}

\* C5: startover leaves the session in Setup with channels, wins and served
\* empty, round_index 0, current_round None, and nothing of the session left
\* in the upload tree.
StartoverDiscardsAll ==
    [][ last'.op = "startover" =>
          /\ InSetup(game')
          /\ game'.wins = <<>>
          /\ game'.served = <<>>
          /\ game'.round_index = 0
          /\ game'.current_round = <<>>
          /\ UserFiles(fs') = {}
          /\ Append(UPLOAD_ROOT, GID) \notin fs'.dirs ]_vars

StartoverWitness ==
    /\ last.op = "startover"
    /\ InSetup(game)
    /\ UPLOAD_ROOT \in fs.dirs
    /\ UserFiles(fs) = {}

\* C6: a setup request that builds fewer than 2 usable channels answers
\* InsufficientChannels and changes no field of the game record.
SetupFailureKeepsGame ==
    [][ last'.op = "setup" /\ last'.usable < 2 =>
          last'.res = "InsufficientChannels" /\ game' = game ]_vars

SetupFailureWitness ==
    /\ last.op = "setup"
    /\ last.res = "InsufficientChannels"
    /\ last.usable = 1
    /\ InPlaying(game)
    /\ game.round_index > 0
    /\ game.rounds_total # DefaultRounds

\* C7: choose without a current round, or with a choice that is neither left
\* nor right, changes no field of the game record, and the play request after
\* an invalid choice renders the round that was current.
InvalidChoiceIgnored ==
    /\ [][ last'.op = "choose"
           /\ (game.current_round = <<>> \/ last'.choice \notin {"left", "right"})
           => game' = game ]_vars
    /\ [][ last.op = "choose" /\ last.choice \notin {"left", "right"}
           /\ game.current_round # <<>> /\ last'.op = "play"
           => last'.res = "play.html" /\ last'.round = game.current_round ]_vars

InvalidChoiceWitness ==
    /\ last.op = "choose"
    /\ last.choice \notin {"left", "right"}
    /\ game.current_round # <<>>
    /\ game.round_index > 0

\* C8: play with a current round already set renders that round and changes
\* no field of the game record; play changes the game record only when
\* current_round is None.
PlayIdempotent ==
    /\ [][ last'.op = "play" /\ game.current_round # <<>> =>
             /\ game' = game
             /\ last'.res = "play.html"
             /\ last'.round = game.current_round ]_vars
    /\ [][ last'.op = "play" /\ game' # game =>
             /\ game.current_round = <<>>
             /\ game'.current_round # <<>>
             /\ game'.wins = game.wins
             /\ game'.round_index = game.round_index ]_vars

PlayIdempotentWitness ==
    /\ last.op = "play"
    /\ last.reused
    /\ last.round = game.current_round
    /\ game.current_round # <<>>

----------------------------------------------------------------------------
(* pick_unserved_image called again and again on one channel               *)

\* "A/1.png", "A/2.png", ...
ImageFile(i) == <<"A", "/">> \o Decimal(i) \o <<".", "p", "n", "g">>

\* the games right after a setup whose first folder holds n images
PickStarts ==
    { SetupGame(NewGame,
                BuildChannels(FreshTree,
                              << [i \in 1..n |-> ImageFile(i)], <<F_Ba>> >>),
                DefaultRounds) : n \in 1..MaxImages }

InitPick ==
    /\ game \in PickStarts
    /\ fs = BuildChannels(FreshTree,
                          << [i \in 1..Len(game.channels[1].images) |-> ImageFile(i)],
                             <<F_Ba>> >>).fs
    /\ last = NoResponse
    /\ nchoose = 0
    /\ picks = <<>>
    /\ pc = <<>>
    /\ loc = <<>>
    /\ start = <<>>

\* one more call of pick_unserved_image(game, channels[0])
PickStep ==
    /\ Len(picks) <= Len(game.channels[1].images)
    /\ \E choice \in PickChoices(game, game.channels[1]) :
        /\ game' = pick_unserved_image(game, game.channels[1], choice)
        /\ picks' = Append(picks, choice)
    /\ UNCHANGED <<fs, last, nchoose, pc, loc, start>>

SpecPick == InitPick /\ [][PickStep]_vars

\* C3: from an empty served set, the first len(images) calls return pairwise
\* different images, all of them after len(images) calls, with served holding
\* exactly the images returned; the call after that leaves served holding
\* exactly the image it returned.
PicksArePermutation ==
    LET C == game.channels[1]
        n == Len(C.images)
        served == game.served[C.name]
    IN  /\ Len(picks) <= n =>
             /\ \A i, j \in 1..Len(picks) : i # j => picks[i] # picks[j]
             /\ served = Range(picks)
             /\ Range(picks) \subseteq Range(C.images)
        /\ Len(picks) = n => Range(picks) = Range(C.images)
        /\ Len(picks) = n + 1 =>
             /\ served = {picks[n + 1]}
             /\ picks[n + 1] \in Range(C.images)

PicksWitness ==
    /\ Len(game.channels[1].images) >= 3
    /\ Len(picks) = Len(game.channels[1].images) + 1
    /\ picks[Len(picks)] = picks[Len(picks) - 1]

----------------------------------------------------------------------------
(* A game played to its end: while the session is in Playing only play and  *)
(* choose requests arrive, and play and the valid choices keep arriving     *)

SetupIdle == ~InPlaying(game) /\ Setup
ReplayIdle == ~InPlaying(game) /\ Replay
StartoverIdle == ~InPlaying(game) /\ Startover

NextLive == SetupIdle \/ Play \/ Choose \/ ReplayIdle \/ StartoverIdle

SpecLive ==
    /\ Init
    /\ [][NextLive]_vars
    /\ WF_vars(Play)
    /\ WF_vars(ChooseWith("left") \/ ChooseWith("right"))

\* C9: when as many choices were recorded as the game has rounds, round_index
\* and the sum of the wins equal rounds_total and the session is in Results;
\* and a session in Playing that keeps getting play and valid choose requests,
\* and no setup, replay or startover, reaches Results.
GameReachesResults ==
    /\ [](~InSetup(game) /\ nchoose = game.rounds_total =>
            /\ game.round_index = game.rounds_total
            /\ SumWins(game) = game.rounds_total
            /\ InResults(game))
    /\ [](~InSetup(game) /\ nchoose < game.rounds_total => InPlaying(game))
    /\ (InPlaying(game) ~> InResults(game))

GameReachesResultsWitness ==
    /\ InResults(game)
    /\ nchoose = game.rounds_total
    /\ nchoose > MinRounds
    /\ last.op = "choose"
    /\ \A n \in DOMAIN game.wins : game.wins[n] > 0

----------------------------------------------------------------------------
(* Two requests of one session handled by two threads of the server.  The  *)
(* handlers take no lock: a thread can be suspended between any two        *)
(* statements, and between the load and the store of an in-place update.   *)
(* A handler works on the dict it fetched from GAMES[gid]; once startover  *)
(* has stored a new dict there, that is an old dict no request will read.  *)

Threads == {1, 2}

NoRequest == [op |-> "", choice |-> "", slots |-> <<>>, form |-> <<>>]
NoChannel == [name |-> <<>>, dir |-> <<>>, images |-> <<>>]

\* ref: "none" before game = GAMES[gid], then "live", or "old" once another
\* thread has replaced GAMES[gid]; old: that old dict
NoLocals ==
    [ req |-> NoRequest, ref |-> "none", old |-> NewGame, tmp |-> 0, picked |-> <<>>,
      chanA |-> NoChannel, chanB |-> NoChannel, imgA |-> <<>>, imgB |-> <<>>,
      channels |-> <<>>, rounds_total |-> 0, res |-> "" ]

ConcSlots == << <<F_Aa, F_Ab>>, <<F_Ba, F_txt>> >>

ConcRequests ==
    { [NoRequest EXCEPT !.op = "choose", !.choice = c] : c \in {"left", "right"} }
    \cup { [NoRequest EXCEPT !.op = o] : o \in {"play", "replay", "startover"} }
    \cup { [NoRequest EXCEPT !.op = "setup", !.slots = ConcSlots,
                             !.form = <<Decimal(MinRounds)>>] }

\* games the session is in after a setup, a first play and a first choice
ConcStarts ==
    LET g0 == SetupGame(NewGame, BuiltFresh[ConcSlots], MinRounds)
    IN  {g0} \cup NewRounds(g0) \cup {ChooseGame(g, "left") : g \in NewRounds(g0)}

InitConc ==
    /\ game \in ConcStarts
    /\ start = game
    /\ fs = [BuiltFresh[ConcSlots].fs EXCEPT !.err = FALSE]
    /\ last = NoResponse
    /\ nchoose = 0
    /\ picks = <<>>
    /\ pc = [t \in Threads |-> "idle"]
    /\ loc = [t \in Threads |-> NoLocals]

\* the dict thread t holds in its variable game
GameOf(t) == IF loc[t].ref = "old" THEN loc[t].old ELSE game

Goto(t, label) == pc' = [pc EXCEPT ![t] = label]

\* thread t goes on with locals l and no store
Local(t, l) == loc' = [loc EXCEPT ![t] = l] /\ UNCHANGED game

\* thread t stores g into the dict it holds and goes on with locals l
Store(t, g, l) ==
    IF loc[t].ref = "old"
    THEN loc' = [loc EXCEPT ![t] = [l EXCEPT !.old = g]] /\ UNCHANGED game
    ELSE loc' = [loc EXCEPT ![t] = l] /\ game' = g

FirstLabel(op) ==
    CASE op = "choose" -> "ch_game" [] op = "play" -> "pl_game"
      [] op = "replay" -> "rp_game" [] op = "startover" -> "so_rmtree"
      [] op = "setup" -> "su_game"

\* a request arrives and a thread is given to it
Begin(t) ==
    /\ pc[t] = "idle"
    /\ \E req \in ConcRequests :
        /\ Local(t, [loc[t] EXCEPT !.req = req])
        /\ Goto(t, FirstLabel(req.op))
    /\ UNCHANGED <<fs, last, nchoose, picks, start>>

\* game = GAMES[gid]: lines 48, 103, 184, 217
Fetch(t) ==
    /\ pc[t] \in {"ch_game", "pl_game", "rp_game", "su_game"}
    /\ Local(t, [loc[t] EXCEPT !.ref = "live"])
    /\ Goto(t, CASE pc[t] = "ch_game" -> "ch_check" [] pc[t] = "pl_game" -> "pl_check"
                 [] pc[t] = "rp_game" -> "rp_wins" [] pc[t] = "su_game" -> "su_build")
    /\ UNCHANGED <<fs, last, nchoose, picks, start>>

\* POST /choose, statement by statement
ChooseStep(t) ==
    /\ \/ /\ pc[t] = "ch_check"                                   \* line 219
          /\ IF GameOf(t).current_round = <<>>
             THEN Local(t, [loc[t] EXCEPT !.res = "play"]) /\ Goto(t, "done")
             ELSE Local(t, loc[t]) /\ Goto(t, "ch_unpack")
       \/ /\ pc[t] = "ch_unpack"                                  \* lines 222-230
          /\ IF GameOf(t).current_round = <<>>
             THEN Local(t, [loc[t] EXCEPT !.res = "error"]) /\ Goto(t, "done")
             ELSE IF Picked(GameOf(t).current_round, loc[t].req.choice) = <<>>
             THEN Local(t, [loc[t] EXCEPT !.res = "play"]) /\ Goto(t, "done")
             ELSE /\ Local(t, [loc[t] EXCEPT !.picked =
                                  Picked(GameOf(t).current_round, loc[t].req.choice)[1]])
                  /\ Goto(t, "ch_getwins")
       \/ /\ pc[t] = "ch_getwins"                                 \* line 233, right side
          /\ Local(t, [loc[t] EXCEPT !.tmp = Get0(GameOf(t).wins, loc[t].picked)])
          /\ Goto(t, "ch_setwins")
       \/ /\ pc[t] = "ch_setwins"                                 \* line 233, store
          /\ Store(t, [GameOf(t) EXCEPT !.wins =
                          (loc[t].picked :> (loc[t].tmp + 1)) @@ GameOf(t).wins], loc[t])
          /\ Goto(t, "ch_getidx")
       \/ /\ pc[t] = "ch_getidx"                                  \* line 234, load
          /\ Local(t, [loc[t] EXCEPT !.tmp = GameOf(t).round_index])
          /\ Goto(t, "ch_setidx")
       \/ /\ pc[t] = "ch_setidx"                                  \* line 234, store
          /\ Store(t, [GameOf(t) EXCEPT !.round_index = loc[t].tmp + 1], loc[t])
          /\ Goto(t, "ch_clear")
       \/ /\ pc[t] = "ch_clear"                                   \* line 236
          /\ Store(t, [GameOf(t) EXCEPT !.current_round = <<>>], loc[t])
          /\ Goto(t, "ch_resp")
       \/ /\ pc[t] = "ch_resp"                                    \* lines 238-240
          /\ Local(t, [loc[t] EXCEPT !.res =
                          IF GameOf(t).round_index >= GameOf(t).rounds_total
                          THEN "results" ELSE "play"])
          /\ Goto(t, "done")
    /\ UNCHANGED <<fs, last, nchoose, picks, start>>

\* GET /play, statement by statement
PlayStep(t) ==
    /\ \/ /\ pc[t] = "pl_check"                                   \* lines 186-190
          /\ IF GameOf(t).channels = <<>>
             THEN Local(t, [loc[t] EXCEPT !.res = "index"]) /\ Goto(t, "done")
             ELSE IF GameOf(t).round_index >= GameOf(t).rounds_total
             THEN Local(t, [loc[t] EXCEPT !.res = "results"]) /\ Goto(t, "done")
             ELSE Local(t, loc[t]) /\ Goto(t, "pl_round")
       \/ /\ pc[t] = "pl_round"                                   \* line 193
          /\ Local(t, loc[t])
          /\ Goto(t, IF GameOf(t).current_round = <<>> THEN "pl_sample" ELSE "pl_render")
       \/ /\ pc[t] = "pl_sample"                                  \* line 194
          /\ IF Len(GameOf(t).channels) < 2
             THEN Local(t, [loc[t] EXCEPT !.res = "error"]) /\ Goto(t, "done")
             ELSE /\ \E ab \in TwoDistinct(GameOf(t).channels) :
                        Local(t, [loc[t] EXCEPT !.chanA = GameOf(t).channels[ab[1]],
                                                !.chanB = GameOf(t).channels[ab[2]]])
                  /\ Goto(t, "pl_imgA")
       \/ /\ pc[t] = "pl_imgA"                                    \* line 195
          /\ \E choice \in PickChoices(GameOf(t), loc[t].chanA) :
                Store(t, pick_unserved_image(GameOf(t), loc[t].chanA, choice),
                      [loc[t] EXCEPT !.imgA = choice])
          /\ Goto(t, "pl_imgB")
       \/ /\ pc[t] = "pl_imgB"                                    \* line 196
          /\ \E choice \in PickChoices(GameOf(t), loc[t].chanB) :
                Store(t, pick_unserved_image(GameOf(t), loc[t].chanB, choice),
                      [loc[t] EXCEPT !.imgB = choice])
          /\ Goto(t, "pl_store")
       \/ /\ pc[t] = "pl_store"                                   \* line 197
          /\ Store(t, [GameOf(t) EXCEPT !.current_round =
                          << <<loc[t].chanA.name, loc[t].imgA>>,
                             <<loc[t].chanB.name, loc[t].imgB>> >>], loc[t])
          /\ Goto(t, "pl_render")
       \/ /\ pc[t] = "pl_render"                                  \* lines 199-212
          /\ Local(t, [loc[t] EXCEPT !.res = IF GameOf(t).current_round = <<>>
                                              THEN "error" ELSE "play.html"])
          /\ Goto(t, "done")
    /\ UNCHANGED <<fs, last, nchoose, picks, start>>

\* POST /replay: reset_game_state(gid, preserve_cache=True), statement by statement
ReplayStep(t) ==
    /\ \/ /\ pc[t] = "rp_wins"                                    \* line 49
          /\ Store(t, [GameOf(t) EXCEPT !.wins = ZeroWins(GameOf(t).channels)], loc[t])
          /\ Goto(t, "rp_index")
       \/ /\ pc[t] = "rp_index"                                   \* line 50
          /\ Store(t, [GameOf(t) EXCEPT !.round_index = 0], loc[t])
          /\ Goto(t, "rp_round")
       \/ /\ pc[t] = "rp_round"                                   \* line 51
          /\ Store(t, [GameOf(t) EXCEPT !.current_round = <<>>], loc[t])
          /\ Goto(t, "rp_served")
       \/ /\ pc[t] = "rp_served"                                  \* lines 57-58
          /\ Store(t, [GameOf(t) EXCEPT !.served =
                          SetDefaults(GameOf(t).served, GameOf(t).channels)],
                   [loc[t] EXCEPT !.res = "play"])
          /\ Goto(t, "done")
    /\ UNCHANGED <<fs, last, nchoose, picks, start>>

\* POST /startover, statement by statement
StartoverStep(t) ==
    \/ /\ pc[t] = "so_rmtree"                                     \* lines 273-275
       /\ fs' = IF Append(UPLOAD_ROOT, GID) \in fs.dirs
                THEN Rmtree(fs, Append(UPLOAD_ROOT, GID)) ELSE fs
       /\ Local(t, loc[t])
       /\ Goto(t, "so_store")
       /\ UNCHANGED <<last, nchoose, picks, start>>
    \/ /\ pc[t] = "so_store"                                      \* lines 277-284
       /\ game' = NewGame
       /\ loc' = [u \in Threads |->
                    IF u = t THEN [loc[u] EXCEPT !.res = "index"]
                    ELSE IF loc[u].ref = "live" /\ pc[u] # "done"
                    THEN [loc[u] EXCEPT !.ref = "old", !.old = game]
                    ELSE loc[u]]
       /\ Goto(t, "done")
       /\ UNCHANGED <<fs, last, nchoose, picks, start>>

\* POST /setup: the uploads are stored, then the game record is written field
\* by field
SetupStep(t) ==
    \/ /\ pc[t] = "su_build"                                      \* lines 106-169
       /\ \E built \in {Built(ClearUploads(fs), loc[t].req.slots)} :
            /\ fs' = [built.fs EXCEPT !.err = FALSE]
            /\ IF built.fs.err
               THEN Local(t, [loc[t] EXCEPT !.res = "error"]) /\ Goto(t, "done")
               ELSE IF Len(built.channels) < 2
               THEN /\ Local(t, [loc[t] EXCEPT !.res = "InsufficientChannels"])
                    /\ Goto(t, "done")
               ELSE /\ Local(t, [loc[t] EXCEPT !.channels = built.channels,
                                    !.rounds_total = RoundsTotal(loc[t].req.form)])
                    /\ Goto(t, "su_channels")
       /\ UNCHANGED <<last, nchoose, picks, start>>
    \/ /\ \/ /\ pc[t] = "su_channels"                             \* line 172
             /\ Store(t, [GameOf(t) EXCEPT !.channels = loc[t].channels], loc[t])
             /\ Goto(t, "su_rounds")
          \/ /\ pc[t] = "su_rounds"                               \* line 173
             /\ Store(t, [GameOf(t) EXCEPT !.rounds_total = loc[t].rounds_total], loc[t])
             /\ Goto(t, "su_wins")
          \/ /\ pc[t] = "su_wins"                                 \* line 174
             /\ Store(t, [GameOf(t) EXCEPT !.wins = ZeroWins(loc[t].channels)], loc[t])
             /\ Goto(t, "su_served")
          \/ /\ pc[t] = "su_served"                               \* line 175
             /\ Store(t, [GameOf(t) EXCEPT !.served = NoneServed(loc[t].channels)], loc[t])
             /\ Goto(t, "su_index")
          \/ /\ pc[t] = "su_index"                                \* line 176
             /\ Store(t, [GameOf(t) EXCEPT !.round_index = 0], loc[t])
             /\ Goto(t, "su_round")
          \/ /\ pc[t] = "su_round"                                \* line 177
             /\ Store(t, [GameOf(t) EXCEPT !.current_round = <<>>],
                      [loc[t] EXCEPT !.res = "play"])
             /\ Goto(t, "done")
       /\ UNCHANGED <<fs, last, nchoose, picks, start>>

NextConc ==
    \E t \in Threads :
        \/ Begin(t) \/ Fetch(t) \/ ChooseStep(t) \/ PlayStep(t)
        \/ ReplayStep(t) \/ StartoverStep(t) \/ SetupStep(t)

SpecConc == InitConc /\ [][NextConc]_vars

\* the games a request leaves when it is handled alone
Handled(g, req) ==
    CASE req.op = "choose" -> {ChooseGame(g, req.choice)}
      [] req.op = "play" -> PlayGames(g)
      [] req.op = "replay" -> {reset_game_state(g, TRUE)}
      [] req.op = "startover" -> {NewGame}
      [] req.op = "setup" ->
            {SetupGame(g, Built(FreshTree, req.slots), RoundsTotal(req.form))}

\* the games two requests leave when one is handled after the other
SerialOutcomes(g, r1, r2) ==
    UNION {Handled(h, r2) : h \in Handled(g, r1)}
    \cup UNION {Handled(h, r1) : h \in Handled(g, r2)}

SerialResult ==
    (\A t \in Threads : pc[t] = "done") =>
        game \in SerialOutcomes(start, loc[1].req, loc[2].req)

DoubleChooseCountsOnce ==
    /\ \A t \in Threads : pc[t] = "done" /\ loc[t].req.op = "choose"
    /\ start.current_round # <<>>
    => game.round_index = start.round_index + 1 /\ SumWins(game) = SumWins(start) + 1

\* C10: when two requests of one session have been handled concurrently, the
\* game record is one that handling them one after the other, in some order,
\* can leave; in particular two choose requests against the same current
\* round record exactly one win and raise round_index by exactly one.
ConcurrentRequestsSerialize == SerialResult /\ DoubleChooseCountsOnce

----------------------------------------------------------------------------
(* GET /results on sessions with channels                                  *)

\* n / d rounded to the nearest integer, halves to the even one: what
\* round(x, 1) gives in tenths for the quotients 100.0 * wins / total_rounds
\* of sessions with up to 100 rounds, whose halves are exact floats
RoundHalfEven(n, d) ==
    LET q == n \div d
        r == n % d
    IN  IF 2 * r > d \/ (2 * r = d /\ q % 2 = 1) THEN q + 1 ELSE q

\* line 254, in tenths of a percent
Percent(wins, total_rounds) == RoundHalfEven(1000 * wins, total_rounds)

\* the sort key of line 258: (-percent, channel.lower())
KeyLess(x, y) ==
    \/ x.percent > y.percent
    \/ x.percent = y.percent /\ StrLess(StrLower(x.channel), StrLower(y.channel))

\* the sort key without lower()
KeyLess_cased(x, y) ==
    \/ x.percent > y.percent
    \/ x.percent = y.percent /\ StrLess(x.channel, y.channel)

\* list.sort is stable: x goes before the first entry it is less than
RECURSIVE InsertRow(_, _)
InsertRow(sorted, x) ==
    IF sorted = <<>> THEN <<x>>
    ELSE IF KeyLess(x, sorted[1]) THEN <<x>> \o sorted
    ELSE <<sorted[1]>> \o InsertRow(Tail(sorted), x)

RECURSIVE SortRows(_)
SortRows(rows) ==
    IF rows = <<>> THEN <<>>
    ELSE InsertRow(SortRows(SubSeq(rows, 1, Len(rows) - 1)), rows[Len(rows)])

RECURSIVE InsertRow_cased(_, _)
InsertRow_cased(sorted, x) ==
    IF sorted = <<>> THEN <<x>>
    ELSE IF KeyLess_cased(x, sorted[1]) THEN <<x>> \o sorted
    ELSE <<sorted[1]>> \o InsertRow_cased(Tail(sorted), x)

RECURSIVE SortRows_cased(_)
SortRows_cased(rows) ==
    IF rows = <<>> THEN <<>>
    ELSE InsertRow_cased(SortRows_cased(SubSeq(rows, 1, Len(rows) - 1)), rows[Len(rows)])

\* lines 249-255
ResultRows(g) ==
    [i \in 1..Len(g.channels) |->
        [channel |-> g.channels[i].name,
         wins |-> Get0(g.wins, g.channels[i].name),
         percent |-> Percent(Get0(g.wins, g.channels[i].name), Max(1, g.rounds_total))]]

\* results sorted on the names as they are
results_cased(g) == SortRows_cased(ResultRows(g))

\* lines 249-258: the list handed to results.html
results(g) == SortRows(ResultRows(g))

\* lines 243-260
Results ==
    /\ last' = IF game.channels = <<>>
               THEN [NoResponse EXCEPT !.op = "results", !.res = "index"]
               ELSE [NoResponse EXCEPT !.op = "results", !.res = "results.html",
                                       !.out = results(game)]
    /\ UNCHANGED <<game, fs, nchoose, picks, pc, loc, start>>

\* the channel lists of the sessions whose results are asked for
ResultNames ==
    { << <<"A">>, <<"B">> >>, << <<"B">>, <<"a">> >>,
      << <<"b">>, <<"A">>, <<"B">> >>, << <<"A">>, <<"A">> >> }

\* the rounds_total of those sessions
ResultRounds == {5, 10, 16}

ResultChannel(name) ==
    [name |-> name, dir |-> PathJoin(Append(UPLOAD_ROOT, GID), <<name>>),
     images |-> <<PathName(F_c)>>]

\* sessions in Playing or Results between two rounds
ResultStarts ==
    UNION { UNION { { [channels |-> [i \in 1..Len(names) |-> ResultChannel(names[i])],
                       wins |-> w,
                       served |-> [n \in Range(names) |-> {}],
                       rounds_total |-> t,
                       round_index |-> SumOver(w, Range(names)),
                       current_round |-> <<>>]
                      : w \in {v \in [Range(names) -> 0..t] :
                                 SumOver(v, Range(names)) <= t} }
                  : t \in ResultRounds }
          : names \in ResultNames }

InitResults ==
    /\ game \in ResultStarts
    /\ fs = EmptyFs
    /\ last = NoResponse
    /\ nchoose = 0
    /\ picks = <<>>
    /\ pc = <<>>
    /\ loc = <<>>
    /\ start = <<>>

SpecResults == InitResults /\ [][Results]_vars

\* C11: the results list has one entry per channel, each with the channel's
\* win count and 100 * wins / max(1, rounds_total) rounded to one decimal; it
\* is ordered by percent descending and, among equal percents, by lower-cased
\* name ascending (wins A:3, B:3 with 10 rounds give 30.0 twice, A first);
\* the request changes no field of the game record.
ResultsSortedByPercent ==
    /\ [](last.op = "results" =>
            LET out == last.out
                T == Max(1, game.rounds_total)
            IN  /\ last.res = "results.html"
                /\ Len(out) = Len(game.channels)
                /\ \A i \in 1..Len(out) :
                      /\ Cardinality({k \in 1..Len(out) : out[k].channel = out[i].channel})
                           = Cardinality(Named(game, out[i].channel))
                      /\ out[i].wins = game.wins[out[i].channel]
                      /\ 2 * (out[i].percent * T - 1000 * out[i].wins) <= T
                      /\ 2 * (1000 * out[i].wins - out[i].percent * T) <= T
                /\ \A i, j \in 1..Len(out) : i < j =>
                      \/ out[i].percent > out[j].percent
                      \/ /\ out[i].percent = out[j].percent
                         /\ ~StrLess(StrLower(out[j].channel), StrLower(out[i].channel))
                /\ ( /\ T = 10
                     /\ [i \in 1..Len(game.channels) |-> game.channels[i].name]
                          = << <<"A">>, <<"B">> >>
                     /\ game.wins[<<"A">>] = 3 /\ game.wins[<<"B">>] = 3
                     => out = << [channel |-> <<"A">>, wins |-> 3, percent |-> 300],
                                 [channel |-> <<"B">>, wins |-> 3, percent |-> 300] >> ))
    /\ [][last'.op = "results" => game' = game]_vars

ResultsWitness ==
    /\ last.op = "results"
    /\ Len(last.out) = 2
    /\ game.channels[1].name = <<"B">>
    /\ last.out[1].channel = <<"a">>
    /\ last.out[1].percent = last.out[2].percent
    /\ last.out[1].percent = 188

----------------------------------------------------------------------------
(* The rounds field of the setup form                                      *)

\* largest number typed into the rounds field
MaxRoundsTyped == 102

\* what is typed, and the integer it stands for (<<>> when it is none)
Typed(text, val) == [form |-> <<text>>, val |-> val]

RoundsTyped ==
    { Typed(Decimal(n), <<n>>) : n \in 0..MaxRoundsTyped }
    \cup { Typed(<<"-">> \o Decimal(n), <<0 - n>>) : n \in 1..MaxRoundsTyped }
    \cup { Typed(<<" ", "7", " ">>, <<7>>), Typed(<<"+", "8">>, <<8>>),
           Typed(<<"1", "_", "0">>, <<10>>), Typed(<<"0", "0", "7">>, <<7>>),
           Typed(<<"1", "0", "0", "0", "0", "0">>, <<100000>>) }
    \cup { Typed(t, <<>>) :
             t \in { <<>>, <<"x">>, <<"5", "x">>, <<"1", ".", "5">>, <<"+">>,
                     <<"1", "_", "_", "0">>, <<"_", "1">>, <<"1", "_">>,
                     <<"+", " ", "5">>, <<"1", "e", "1">> } }
    \cup { [form |-> <<>>, val |-> <<>>] }

InitRounds ==
    /\ game = NewGame
    /\ fs = EmptyFs
    /\ last = NoResponse
    /\ nchoose = 0
    /\ picks = <<>>
    /\ pc = <<>>
    /\ loc \in RoundsTyped
    /\ start = <<>>

\* a setup request with two folders of images and the rounds field as typed
SetupTyped == SetupWith(ConcSlots, loc.form)

NextRounds == SetupTyped \/ Replay \/ Startover

SpecRounds == InitRounds /\ [][NextRounds]_vars

\* C12: rounds_total is in [5, 100] in every state; a setup request is never
\* answered with an error because of its rounds field; a missing or
\* non-integer field gives 15 and an integer n gives max(5, min(100, n)).
RoundsWithinRange ==
    /\ game.rounds_total \in 5..100
    /\ last.op = "setup" =>
          /\ last.res = "play"
          /\ loc.val = <<>> => game.rounds_total = 15
          /\ loc.val # <<>> =>
                game.rounds_total = (IF loc.val[1] < 5 THEN 5
                                     ELSE IF loc.val[1] > 100 THEN 100 ELSE loc.val[1])

RoundsWitness ==
    /\ last.op = "setup"
    /\ loc.form = << <<"1", ".", "5">> >>
    /\ game.rounds_total = 15
    /\ InPlaying(game)

----------------------------------------------------------------------------
(* Two sessions that differ only in the names of their folders, sent the   *)
(* same requests and given the same draws.  game and last are the first    *)
(* session and its response, start and loc the second.                     *)

\* the uploaded file with its top folder renamed
Refolder(file, folder) == Join(<<folder>> \o Tail(Split(file, "/")), "/")

TwinFolders == << <<"C">>, <<"P">> >>

\* ConcSlots with the folders A and B named C and P
TwinSlots ==
    [i \in 1..Len(ConcSlots) |->
        [j \in 1..Len(ConcSlots[i]) |-> Refolder(ConcSlots[i][j], TwinFolders[i])]]

\* the position in g.channels of the channel called name
IndexOf(g, name) == CHOOSE i \in 1..Len(g.channels) : g.channels[i].name = name

\* the round and the served sets of g by position of the channel
Draws(g) ==
    [ round |-> IF g.current_round = <<>> THEN <<>>
                ELSE << <<IndexOf(g, g.current_round[1][1]), g.current_round[1][2]>>,
                        <<IndexOf(g, g.current_round[2][1]), g.current_round[2][2]>> >>,
      served |-> [i \in 1..Len(g.channels) |-> g.served[g.channels[i].name]] ]

InitTwin ==
    /\ game = NewGame
    /\ start = NewGame
    /\ fs = EmptyFs
    /\ last = NoResponse
    /\ loc = NoResponse
    /\ nchoose = 0
    /\ picks = <<>>
    /\ pc = <<>>

TwinSetup ==
    /\ \E form \in RoundsForms :
        /\ game' = SetupGame(game, BuiltFresh[ConcSlots], RoundsTotal(form))
        /\ start' = SetupGame(start, BuildChannels(FreshTree, TwinSlots), RoundsTotal(form))
    /\ last' = [NoResponse EXCEPT !.op = "setup", !.res = "play"]
    /\ loc' = [NoResponse EXCEPT !.op = "setup", !.res = "play"]
    /\ UNCHANGED <<fs, nchoose, picks, pc>>

TwinPlay ==
    /\ game' \in PlayGames(game)
    /\ start' \in PlayGames(start)
    /\ game'.channels # <<>> => Draws(game') = Draws(start')
    /\ last' = PlayResponse(game, game')
    /\ loc' = PlayResponse(start, start')
    /\ UNCHANGED <<fs, nchoose, picks, pc>>

TwinChoose ==
    /\ \E choice \in Choices :
        /\ game' = ChooseGame(game, choice)
        /\ start' = ChooseGame(start, choice)
        /\ last' = ChooseResponse(game, game', choice)
        /\ loc' = ChooseResponse(start, start', choice)
    /\ UNCHANGED <<fs, nchoose, picks, pc>>

NextTwin == TwinSetup \/ TwinPlay \/ TwinChoose

SpecTwin == InitTwin /\ [][NextTwin]_vars

\* the two sessions hold the same images, round and counters
TwinsAgree ==
    /\ game.round_index = start.round_index
    /\ game.rounds_total = start.rounds_total
    /\ Len(game.channels) = Len(start.channels)
    /\ \A i \in 1..Len(game.channels) : game.channels[i].images = start.channels[i].images
    /\ game.channels # <<>> => Draws(game) = Draws(start)

\* C13: two sessions that differ only in the names of their channels (same
\* images, same round) are rendered the same round: the same image URLs,
\* round number and rounds total.
RoundHidesChannelNames ==
    TwinsAgree /\ last.res = "play.html" /\ loc.res = "play.html" => last.out = loc.out

----------------------------------------------------------------------------
(* sources/upload.py: UploadSource.build_channel                           *)

\* most calls of build_channel in one run
MaxBuilds == 3

ALLOWED_EXT == ALLOWED_EXTENSIONS

\* _allowed(fpath)
allowed(fpath) == StrLower(PathSuffix(fpath)) \in ALLOWED_EXT

\* f"Upload {idx+1}"
UploadDefault(idx) == <<"U", "p", "l", "o", "a", "d", " ">> \o Decimal(idx + 1)

\* lines 50-53 of upload.py
UploadChannelName(rel, idx) ==
    LET clean == SelectSeq(FolderName(rel),
                           LAMBDA ch : IsAlnum(ch) \/ ch \in {" ", "_", "-", "."})
    IN  IF Strip(clean) # <<>> THEN Strip(clean) ELSE UploadDefault(idx)

\* Path.write_bytes(data): the file is created where the path leads; it
\* raises when that is a directory
WriteBytes(f, p) ==
    IF Resolve(p) \in f.dirs THEN [f EXCEPT !.err = TRUE]
    ELSE [f EXCEPT !.files = @ \cup {Resolve(p)}]

\* lines 61-70 of upload.py, for one file; st is [fs, saved_any]
UploadSave(st, ch_dir, filename) ==
    IF st.fs.err \/ filename = <<>> \/ ~allowed(filename) THEN st
    ELSE LET split == Split(filename, "/")
             parts == IF Len(split) > 1 THEN Tail(split) ELSE <<PathName(filename)>>
             dest_dir == IF Len(parts) > 1
                         THEN PathJoin(ch_dir, SubSeq(parts, 1, Len(parts) - 1))
                         ELSE ch_dir
             fs1 == IF Len(parts) > 1 THEN Mkdir(st.fs, dest_dir) ELSE st.fs
             dest_file == PathJoin(dest_dir, <<parts[Len(parts)]>>)
         IN  IF fs1.err THEN [st EXCEPT !.fs = fs1]
             ELSE [fs |-> WriteBytes(fs1, dest_file),
                   saved_any |-> ~WriteBytes(fs1, dest_file).err]

RECURSIVE UploadSaves(_, _, _)
UploadSaves(st, ch_dir, files) ==
    IF files = <<>> THEN st
    ELSE UploadSaves(UploadSave(st, ch_dir, files[1]), ch_dir, Tail(files))

\* lines 75-80 of upload.py
UploadImages(f, ch_dir) ==
    LET d == Resolve(ch_dir)
        under == {x \in f.files : IsProperPrefix(d, x) /\ allowed(x[Len(x)])}
    IN  SortedStrs({Join(SubSeq(x, Len(d) + 1, Len(x)), "/") : x \in under})

\* lines 43-84 of upload.py: the file system it leaves, the directory of the
\* channel, and the channel (<<>> for None)
build_channel(f, idx, file_list) ==
    IF file_list = <<>> THEN [fs |-> f, ch_dir |-> <<>>, channel |-> <<>>]
    ELSE LET channel_name == UploadChannelName(file_list[1], idx)
             ch_dir == PathJoin(Append(UPLOAD_ROOT, GID), <<channel_name>>)
             st == UploadSaves([fs |-> Mkdir(f, ch_dir), saved_any |-> FALSE],
                               ch_dir, file_list)
             images == UploadImages(st.fs, ch_dir)
         IN  [fs |-> st.fs, ch_dir |-> ch_dir,
              channel |-> IF st.saved_any /\ ~st.fs.err /\ images # <<>>
                          THEN <<[name |-> channel_name, dir |-> ch_dir, images |-> images]>>
                          ELSE <<>>]

F_dd == <<".", ".", "/", "a", ".", "p", "n", "g">>
F_sub == <<"A", "/", "b", "/", "a", ".", "p", "n", "g">>
F_side == <<"A", "/", ".", ".", "/", "B", "/", "x", ".", "p", "n", "g">>

\* the file lists handed to build_channel
UploadLists ==
    { <<F_Aa, F_Ab>>, <<F_Ba, F_txt>>, <<F_sub>>, <<F_c>>, <<F_Aa, F_up>>, <<F_dd>>,
      <<F_side>>, <<>> }

\* pc counts the calls; loc is what the last call wrote, and for which channel
InitUpload ==
    /\ game = NewGame
    /\ fs = EmptyFs
    /\ last = NoResponse
    /\ nchoose = 0
    /\ picks = <<>>
    /\ pc = 0
    /\ loc = [ch_dir |-> <<>>, written |-> {}, channel |-> <<>>]
    /\ start = <<>>

UploadBuild ==
    /\ pc < MaxBuilds
    /\ \E idx \in 0..1, file_list \in UploadLists :
        \E r \in {build_channel(fs, idx, file_list)} :
            /\ fs' = [r.fs EXCEPT !.err = FALSE]
            /\ loc' = [ch_dir |-> r.ch_dir, written |-> r.fs.files \ fs.files,
                       channel |-> r.channel]
    /\ pc' = pc + 1
    /\ UNCHANGED <<game, last, nchoose, picks, start>>

SpecUpload == InitUpload /\ [][UploadBuild]_vars

\* C14: no file is written outside the storage subtree of the channel that
\* is being built, uploads/<gid>/<channel name>.
UploadsStayInChannel ==
    \A x \in loc.written :
        /\ IsProperPrefix(Resolve(loc.ch_dir), x)
        /\ IsProperPrefix(Append(UPLOAD_ROOT, GID), Resolve(loc.ch_dir))

----------------------------------------------------------------------------
(* Further properties of the request handlers run one after the other      *)

\* C15: a choose with a current round and the choice left or right adds one
\* to the win count kept under the name on the chosen side of the round
\* (left the first entry, right the second) and to no other win count, adds
\* one to round_index, sets current_round to None, and leaves served,
\* channels and rounds_total as they were.
ChooseCountsOneWin ==
    [][ last'.op = "choose" /\ game.current_round # <<>>
        /\ last'.choice \in {"left", "right"} =>
          LET picked == IF last'.choice = "left" THEN game.current_round[1][1]
                        ELSE game.current_round[2][1]
          IN  /\ DOMAIN game'.wins = DOMAIN game.wins
              /\ picked \in DOMAIN game.wins
              /\ game'.wins[picked] = game.wins[picked] + 1
              /\ \A n \in DOMAIN game.wins \ {picked} : game'.wins[n] = game.wins[n]
              /\ game'.round_index = game.round_index + 1
              /\ game'.current_round = <<>>
              /\ game'.served = game.served
              /\ game'.channels = game.channels
              /\ game'.rounds_total = game.rounds_total ]_vars

ChooseWitness ==
    /\ last.op = "choose"
    /\ last.choice = "right"
    /\ game.current_round = <<>>
    /\ game.round_index = 2
    /\ Len(game.channels) = 3
    /\ \E n \in DOMAIN game.wins : game.wins[n] = 2

\* C16: in every state 0 <= round_index <= rounds_total, and current_round
\* is None whenever round_index >= rounds_total; a play request in Results
\* prepares no round and changes nothing, and a choose request in Results
\* records nothing.
RoundIndexWithinTotal ==
    /\ [](/\ 0 <= game.round_index
          /\ game.round_index <= game.rounds_total
          /\ (game.round_index >= game.rounds_total => game.current_round = <<>>))
    /\ [][ last'.op = "play" /\ InResults(game) =>
             game' = game /\ last'.res = "results" /\ last'.round = <<>> ]_vars
    /\ [][ last'.op = "choose" /\ InResults(game) => game' = game ]_vars

RoundIndexWitness ==
    /\ InResults(game)
    /\ last.op = "play"
    /\ last.res = "results"
    /\ game.round_index = game.rounds_total
    /\ game.rounds_total > MinRounds

\* C17: a round stored in current_round names two different channel names of
\* the session, and each of its two images is an image of the channel it is
\* paired with.
RoundNamesTwoChannels ==
    game.current_round # <<>> =>
        /\ game.current_round[1][1] # game.current_round[2][1]
        /\ \A k \in 1..2 :
              /\ Named(game, game.current_round[k][1]) # {}
              /\ \A i \in Named(game, game.current_round[k][1]) :
                    game.current_round[k][2] \in Range(game.channels[i].images)

\* C18: the channel names of the session are pairwise distinct.
ChannelNamesDistinct ==
    \A i, j \in 1..Len(game.channels) :
        i # j => game.channels[i].name # game.channels[j].name

\* the images of the channel called name that were served
ServedOf(g, name) == IF name \in DOMAIN g.served THEN g.served[name] ELSE {}

\* C19: a call of pick_unserved_image on one channel of the session, whatever
\* image it returns and whether or not it clears that channel's served set,
\* leaves the served set of every other channel as it was.
PickKeepsOtherCaches ==
    \A i, j \in 1..Len(game.channels) :
        i # j =>
            \A choice \in PickChoices(game, game.channels[i]) :
                ServedOf(pick_unserved_image(game, game.channels[i], choice),
                         game.channels[j].name)
                    = ServedOf(game, game.channels[j].name)

\* where serve_image looks for the image relpath of channel c: lines 290-293
StoredAt(c, relpath) == Resolve(PathJoin(c.dir, Split(relpath, "/")))

\* C20: while the session holds channels, the file of every image of every
\* channel is present in the session's upload tree.
ImagesStayStored ==
    \A i \in 1..Len(game.channels) :
        \A k \in 1..Len(game.channels[i].images) :
            StoredAt(game.channels[i], game.channels[i].images[k]) \in UserFiles(fs)

====
